---- MODULE Spec2Model ----
(***************************************************************************)
(* A model of MyPersonalizedGamingAdvisor: the ingestion pipeline          *)
(* (steam_connection.py), the validation schema (database/schemas.py), the *)
(* persistence helpers (database/data_handling.py) over the tables of      *)
(* database/db.py, and the recommender (recommender.py).                   *)
(*                                                                         *)
(* Python strings are sequences of one-character strings, so that split,   *)
(* strip, lower, int() and str() are computed character by character.      *)
(* Weakly typed values (JSON values, function arguments) are tagged        *)
(* records [t |-> <type>, v |-> <value>]; a dict is a TLA+ function with   *)
(* string keys.  Prices are integers counted in hundredths.                *)
(*                                                                         *)
(* The Games table keeps the columns that the operations below read or     *)
(* constrain: id, steam_appid, game_name, genres, usk, price,              *)
(* recommendations.  description, platforms, release_date and the          *)
(* timestamps are written once and never read by any operation.            *)
(***************************************************************************)
EXTENDS Integers, Sequences, FiniteSets, TLC

VARIABLES
    engine,        \* data_handling.engine: TRUE when create_engine succeeded, FALSE for None
    users,         \* ids of the rows of table "user"
    games,         \* rows of table "games", in the order the store returns them
    requirements,  \* rows of table "gamesystemrequirement"
    nextGameId,    \* the next value of the games.id sequence
    library,       \* rows of table "usergames", in the order the store returns them
    sync,          \* steam_connection.main: the run of retrieve_app_list and of
                   \* process_and_save_apps, see NoSync below
    last           \* the last call: its name, its arguments, how it ended and what
                   \* it returned; for get_recommendations_for_user also the genre
                   \* profile it computed and whether it ran select(Games)

vars == <<engine, users, games, requirements, nextGameId, library, sync, last>>

(***************************************************************************)
(* Bounds of the model.                                                    *)
(***************************************************************************)
MaxGameId == 2
MaxLibrary == 2

-----------------------------------------------------------------------------
(***************************************************************************)
(* Python str operations.                                                  *)
(***************************************************************************)
UpperChars == <<"A","B","C","D","E","F","G","H","I","J","K","L","M",
                "N","O","P","Q","R","S","T","U","V","W","X","Y","Z">>
LowerChars == <<"a","b","c","d","e","f","g","h","i","j","k","l","m",
                "n","o","p","q","r","s","t","u","v","w","x","y","z">>
DigitChars == <<"0","1","2","3","4","5","6","7","8","9">>

isspace(c) == c \in {" ", "\t", "\n"}
isdigit(c) == \E i \in 1..10 : DigitChars[i] = c
digit_value(c) == (CHOOSE i \in 1..10 : DigitChars[i] = c) - 1

lower_char(c) ==
    IF \E i \in 1..26 : UpperChars[i] = c
    THEN LowerChars[CHOOSE i \in 1..26 : UpperChars[i] = c]
    ELSE c

\* str.lower()
lower(s) == [i \in 1..Len(s) |-> lower_char(s[i])]

RECURSIVE lstrip(_)
lstrip(s) == IF s # <<>> /\ isspace(Head(s)) THEN lstrip(Tail(s)) ELSE s

RECURSIVE rstrip(_)
rstrip(s) ==
    IF s # <<>> /\ isspace(s[Len(s)]) THEN rstrip(SubSeq(s, 1, Len(s) - 1)) ELSE s

\* str.strip()
strip(s) == rstrip(lstrip(s))

\* str.split(sep) for a one-character separator: "".split(",") is [""]
RECURSIVE split(_, _)
split(s, sep) ==
    IF \E i \in 1..Len(s) : s[i] = sep
    THEN LET k == CHOOSE i \in 1..Len(s) : s[i] = sep /\ \A j \in 1..(i - 1) : s[j] # sep
         IN  <<SubSeq(s, 1, k - 1)>> \o split(SubSeq(s, k + 1, Len(s)), sep)
    ELSE <<s>>

\* sep.join(parts)
RECURSIVE join(_, _)
join(sep, parts) ==
    IF parts = <<>> THEN <<>>
    ELSE IF Len(parts) = 1 THEN parts[1]
    ELSE parts[1] \o sep \o join(sep, Tail(parts))

\* "".join(ch for ch in s if ch.isdigit())
digits_of(s) == SelectSeq(s, isdigit)

\* the value of a non-empty string of digits
RECURSIVE digits_value(_)
digits_value(s) ==
    IF s = <<>> THEN 0
    ELSE 10 * digits_value(SubSeq(s, 1, Len(s) - 1)) + digit_value(s[Len(s)])

\* the decimal digits of n >= 0
RECURSIVE nat_str(_)
nat_str(n) ==
    IF n < 10 THEN <<DigitChars[n + 1]>>
    ELSE nat_str(n \div 10) \o <<DigitChars[(n % 10) + 1]>>

\* int(s) for a str s: surrounding whitespace, an optional sign, then digits only
int_literal_ok(s) ==
    LET u == strip(s)
        body == IF u # <<>> /\ Head(u) \in {"+", "-"} THEN Tail(u) ELSE u
    IN  body # <<>> /\ \A i \in 1..Len(body) : isdigit(body[i])

int_literal(s) ==
    LET u == strip(s)
        neg == u # <<>> /\ Head(u) = "-"
        body == IF u # <<>> /\ Head(u) \in {"+", "-"} THEN Tail(u) ELSE u
    IN  IF neg THEN 0 - digits_value(body) ELSE digits_value(body)

\* Decimal(s) for a str s, in hundredths: a sign, digits, and at most two
\* fraction digits ("19.99", "-5", "7.5"); anything else is not a number here
decimal_literal_ok(s) ==
    LET u == strip(s)
        body == IF u # <<>> /\ Head(u) \in {"+", "-"} THEN Tail(u) ELSE u
        parts == split(body, ".")
    IN  /\ Len(parts) \in {1, 2}
        /\ parts[1] # <<>>
        /\ \A i \in 1..Len(parts[1]) : isdigit(parts[1][i])
        /\ Len(parts) = 2 =>
              /\ Len(parts[2]) \in {1, 2}
              /\ \A i \in 1..Len(parts[2]) : isdigit(parts[2][i])

decimal_literal(s) ==
    LET u == strip(s)
        neg == u # <<>> /\ Head(u) = "-"
        body == IF u # <<>> /\ Head(u) \in {"+", "-"} THEN Tail(u) ELSE u
        parts == split(body, ".")
        frac == IF Len(parts) = 1 THEN 0
                ELSE IF Len(parts[2]) = 1 THEN 10 * digits_value(parts[2])
                ELSE digits_value(parts[2])
        mag == 100 * digits_value(parts[1]) + frac
    IN  IF neg THEN 0 - mag ELSE mag

-----------------------------------------------------------------------------
(***************************************************************************)
(* Weakly typed values.                                                    *)
(***************************************************************************)
PyNone == [t |-> "null"]
PyInt(n) == [t |-> "int", v |-> n]
PyBool(b) == [t |-> "bool", v |-> b]
PyStr(s) == [t |-> "str", v |-> s]
\* a float that is a whole number of hundredths, as produced by <int> / 100
PyFloat(h) == [t |-> "float", v |-> h]
PyList(q) == [t |-> "list", v |-> q]
PyDict(d) == [t |-> "dict", v |-> d]

\* dict.get(key, default)
get(d, key, default) == IF key \in DOMAIN d THEN d[key] ELSE default

\* bool(x): Python truthiness
truthy(x) ==
    CASE x.t = "null" -> FALSE
      [] x.t = "bool" -> x.v
      [] x.t \in {"int", "float"} -> x.v # 0
      [] x.t = "str" -> x.v # <<>>
      [] x.t = "list" -> x.v # <<>>
      [] x.t = "dict" -> DOMAIN x.v # {}

\* str(x) for the values a rating can take
str_of(x) ==
    CASE x.t = "str" -> x.v
      [] x.t = "null" -> <<"N","o","n","e">>
      [] x.t = "bool" -> IF x.v THEN <<"T","r","u","e">> ELSE <<"F","a","l","s","e">>
      [] x.t = "int" -> IF x.v < 0 THEN <<"-">> \o nat_str(0 - x.v) ELSE nat_str(x.v)

-----------------------------------------------------------------------------
(***************************************************************************)
(* steam_connection.py: the field extractors.                              *)
(***************************************************************************)

\* BeautifulSoup(value, "html.parser") text nodes: the text between the tags
RECURSIVE text_nodes(_)
text_nodes(s) ==
    IF \E i \in 1..Len(s) : s[i] = "<"
    THEN LET a == CHOOSE i \in 1..Len(s) : s[i] = "<" /\ \A j \in 1..(i - 1) : s[j] # "<"
             rest == SubSeq(s, a + 1, Len(s))
         IN  IF \E i \in 1..Len(rest) : rest[i] = ">"
             THEN LET b == CHOOSE i \in 1..Len(rest) :
                               rest[i] = ">" /\ \A j \in 1..(i - 1) : rest[j] # ">"
                  IN  <<SubSeq(s, 1, a - 1)>> \o text_nodes(SubSeq(rest, b + 1, Len(rest)))
             ELSE <<s>>
    ELSE <<s>>

nonempty(s) == s # <<>>

\* _extract_clean_text: soup.get_text(separator=" ", strip=True)
_extract_clean_text(value) ==
    IF ~truthy(value) THEN <<>>
    ELSE LET nodes == text_nodes(value.v)
             stripped == [i \in 1..Len(nodes) |-> strip(nodes[i])]
         IN  join(<<" ">>, SelectSeq(stripped, nonempty))

VALID_USK_RATINGS == {0, 6, 12, 16, 18}
VALID_SYSTEM_PLATFORMS == {<<"p","c">>, <<"m","a","c">>, <<"l","i","n","u","x">>}

\* _extract_usk_rating
_extract_usk_rating(raw_data) ==
    LET ratings == get(raw_data, "ratings", PyNone) IN
    IF ratings.t # "dict" THEN 0
    ELSE LET usk_data == get(ratings.v, "usk", PyNone) IN
         IF usk_data.t # "dict" THEN 0
         ELSE LET raw_rating == strip(str_of(get(usk_data.v, "rating", PyStr(<<>>))))
                  digits == digits_of(raw_rating)
              IN  IF digits = <<>> THEN 0
                  ELSE IF digits_value(digits) \in {0, 6, 12, 16, 18}
                       THEN digits_value(digits) ELSE 0

\* _extract_platform_requirements: one entry per platform that has any text
platform_requirement(raw_data, platform) ==
    LET platform_data == get(raw_data, platform \o "_requirements", PyNone) IN
    IF platform_data.t # "dict" THEN <<>>
    ELSE LET minimum == _extract_clean_text(get(platform_data.v, "minimum", PyStr(<<>>)))
             recommended ==
                 _extract_clean_text(get(platform_data.v, "recommended", PyStr(<<>>)))
         IN  IF minimum = <<>> /\ recommended = <<>> THEN <<>>
             ELSE <<PyDict([platform |-> PyStr(CASE platform = "pc" -> <<"p","c">>
                                                  [] platform = "mac" -> <<"m","a","c">>
                                                  [] platform = "linux" -> <<"l","i","n","u","x">>),
                            minimum |-> PyStr(minimum),
                            recommended |-> IF recommended = <<>> THEN PyNone
                                            ELSE PyStr(recommended)])>>

_extract_platform_requirements(raw_data) ==
    platform_requirement(raw_data, "pc") \o platform_requirement(raw_data, "mac")
        \o platform_requirement(raw_data, "linux")

\* the entries of raw_data["genres"] that the generator keeps
genre_kept(genre) == genre.t = "dict" /\ truthy(get(genre.v, "description", PyNone))

\* create_game_info_dict raises (AttributeError) when a kept genre's description
\* is not a str: <non-str>.strip()
create_game_info_dict_raises(raw_data) ==
    LET genres == get(raw_data, "genres", PyNone) IN
    /\ genres.t = "list"
    /\ \E i \in 1..Len(genres.v) :
          genre_kept(genres.v[i]) /\ genres.v[i].v["description"].t # "str"

\* create_game_info_dict, when it does not raise
create_game_info_dict(raw_data) ==
    LET genres == get(raw_data, "genres", PyNone)
        kept == IF genres.t = "list" THEN SelectSeq(genres.v, genre_kept) ELSE <<>>
        price_overview == get(raw_data, "price_overview", PyNone)
        final == IF price_overview.t = "dict"
                 THEN get(price_overview.v, "final", PyNone) ELSE PyNone
        recommendations == get(raw_data, "recommendations", PyNone)
    IN  [appid |-> get(raw_data, "steam_appid", get(raw_data, "appid", PyNone)),
         name |-> get(raw_data, "name", PyStr(<<>>)),
         system_requirements |-> PyList(_extract_platform_requirements(raw_data)),
         genres |-> PyStr(join(<<",", " ">>,
                              [i \in 1..Len(kept) |-> strip(kept[i].v["description"].v)])),
         price |-> IF final.t = "int" THEN PyFloat(final.v)
                   ELSE IF final.t = "bool" THEN PyFloat(IF final.v THEN 1 ELSE 0)
                   ELSE PyFloat(0),
         usk |-> PyInt(_extract_usk_rating(raw_data)),
         recommendations |-> IF recommendations.t = "dict"
                             THEN get(recommendations.v, "total", PyInt(0))
                             ELSE PyInt(0)]

-----------------------------------------------------------------------------
(***************************************************************************)
(* database/schemas.py: GameIn and SystemRequirementIn.                    *)
(***************************************************************************)

\* int(value) succeeds (neither TypeError nor ValueError)
int_ok(value) ==
    CASE value.t \in {"int", "bool", "float"} -> TRUE
      [] value.t = "str" -> int_literal_ok(value.v)
      [] OTHER -> FALSE

\* int(value); a float is truncated toward zero
int_of(value) ==
    CASE value.t = "int" -> value.v
      [] value.t = "bool" -> IF value.v THEN 1 ELSE 0
      [] value.t = "float" ->
            IF value.v < 0 THEN 0 - ((0 - value.v) \div 100) ELSE value.v \div 100
      [] value.t = "str" -> int_literal(value.v)

\* value in (None, "")
none_or_empty(value) == value.t = "null" \/ (value.t = "str" /\ value.v = <<>>)

\* a validator that keeps any integer rating
normalize_usk_unchecked(value) ==
    IF none_or_empty(value) THEN 0
    ELSE IF ~int_ok(value) THEN 0
    ELSE int_of(value)

\* GameIn.normalize_usk
normalize_usk(value) ==
    IF none_or_empty(value) THEN 0
    ELSE IF ~int_ok(value) THEN 0
    ELSE IF int_of(value) \in VALID_USK_RATINGS THEN int_of(value) ELSE 0

\* Decimal(str(value)) succeeds
decimal_ok(value) ==
    CASE value.t \in {"int", "float"} -> TRUE
      [] value.t = "str" -> decimal_literal_ok(value.v)
      [] OTHER -> FALSE

\* Decimal(str(value)), in hundredths
decimal_of(value) ==
    CASE value.t = "int" -> 100 * value.v
      [] value.t = "float" -> value.v
      [] value.t = "str" -> decimal_literal(value.v)

\* GameIn.normalize_price, in hundredths
normalize_price(value) ==
    IF none_or_empty(value) THEN 0
    ELSE IF ~decimal_ok(value) THEN 0
    ELSE IF decimal_of(value) >= 0 THEN decimal_of(value) ELSE 0

\* GameIn.normalize_recommendations
normalize_recommendations(value) ==
    IF none_or_empty(value) THEN 0
    ELSE IF ~int_ok(value) THEN 0
    ELSE IF int_of(value) >= 0 THEN int_of(value) ELSE 0

\* appid: int | None = None, pydantic's lax conversion to int
appid_ok(value) ==
    CASE value.t \in {"null", "int", "bool"} -> TRUE
      [] value.t = "float" -> value.v % 100 = 0
      [] value.t = "str" -> int_literal_ok(value.v)
      [] OTHER -> FALSE

appid_of(value) == IF value.t = "null" THEN PyNone ELSE PyInt(int_of(value))

\* name: str = Field(min_length=1) under str_strip_whitespace=True
name_ok(value) == value.t = "str" /\ Len(strip(value.v)) >= 1

\* a field declared str with a default
str_ok(value) == value.t = "str"

\* SystemRequirementIn.normalize_platform and the two text fields
requirement_ok(req) ==
    /\ req.t = "dict"
    /\ LET platform == get(req.v, "platform", PyNone) IN
          /\ platform.t \in {"str", "int", "bool"}
          /\ lower(strip(str_of(platform))) \in VALID_SYSTEM_PLATFORMS
    /\ str_ok(get(req.v, "minimum", PyStr(<<>>)))
    /\ get(req.v, "recommended", PyNone).t \in {"str", "null"}

requirement_of(req) ==
    LET recommended == get(req.v, "recommended", PyNone) IN
    [platform |-> lower(strip(str_of(req.v["platform"]))),
     minimum |-> strip(get(req.v, "minimum", PyStr(<<>>)).v),
     recommended |-> IF recommended.t = "null" THEN PyNone
                     ELSE PyStr(strip(recommended.v))]

\* GameIn.model_validate raises ValidationError
model_validate_fails(app_details) ==
    LET reqs == get(app_details, "system_requirements", PyList(<<>>)) IN
    \/ ~appid_ok(get(app_details, "appid", PyNone))
    \/ ~name_ok(get(app_details, "name", PyNone))
    \/ ~str_ok(get(app_details, "genres", PyStr(<<>>)))
    \/ reqs.t # "list"
    \/ \E i \in 1..Len(reqs.v) : ~requirement_ok(reqs.v[i])

\* GameIn.model_validate, when it does not raise
model_validate(app_details) ==
    LET reqs == get(app_details, "system_requirements", PyList(<<>>)).v IN
    [appid |-> appid_of(get(app_details, "appid", PyNone)),
     name |-> strip(app_details["name"].v),
     genres |-> strip(get(app_details, "genres", PyStr(<<>>)).v),
     usk |-> normalize_usk(get(app_details, "usk", PyInt(0))),
     price |-> normalize_price(get(app_details, "price", PyInt(0))),
     recommendations |->
         normalize_recommendations(get(app_details, "recommendations", PyInt(0))),
     system_requirements |-> [i \in 1..Len(reqs) |-> requirement_of(reqs[i])]]

-----------------------------------------------------------------------------
(***************************************************************************)
(* The strings that the inputs below are built from.                       *)
(***************************************************************************)
s_Doom == <<"D","o","o","m">>
s_Doom_padded == <<" ","D","o","o","m"," ">>
s_Hades == <<"H","a","d","e","s">>
s_blank == <<" "," ">>
s_RPG == <<"R","P","G">>
s_Action == <<"A","c","t","i","o","n">>
s_Strategy == <<"S","t","r","a","t","e","g","y">>
s_Indie_padded == <<" ","I","n","d","i","e"," ">>
s_18 == <<"1","8">>
s_7 == <<"7">>
s_USK_12 == <<"U","S","K"," ","1","2">>
s_16 == <<"1","6">>
s_42 == <<"4","2">>
s_77 == <<"7","7">>
s_abc == <<"a","b","c">>
s_19_99 == <<"1","9",".","9","9">>
s_minus_5 == <<"-","5">>
s_pc == <<"p","c">>
s_PC_padded == <<" ","P","C"," ">>
s_xbox == <<"x","b","o","x">>
s_html_os == <<"<","b",">","O","S",":","<","/","b",">"," ","W","i","n"," ","1","0","<","b","r",">">>
s_html_empty == <<"<","p",">"," ","<","/","p",">">>
s_8GB == <<"8"," ","G","B">>
s_16GB == <<"1","6"," ","G","B">>

-----------------------------------------------------------------------------
(***************************************************************************)
(* database/db.py and database/data_handling.py: the store.                *)
(***************************************************************************)

\* Games.__table_args__: the three CheckConstraints
games_constraints_ok(row) ==
    /\ row.usk \in {0, 6, 12, 16, 18}
    /\ row.price >= 0
    /\ row.recommendations >= 0

\* save_game_details, lines 79-92: the Games row built from the validated input
game_row(game_in, id) ==
    [id |-> id,
     steam_appid |-> game_in.appid,
     game_name |-> game_in.name,
     genres |-> game_in.genres,
     usk |-> game_in.usk,
     price |-> game_in.price,
     recommendations |-> game_in.recommendations]

\* a dedup that keeps the first entry of a platform
RECURSIVE normalized_requirements_first(_)
normalized_requirements_first(reqs) ==
    IF reqs = <<>> THEN <<>>
    ELSE LET init == normalized_requirements_first(SubSeq(reqs, 1, Len(reqs) - 1))
             req == reqs[Len(reqs)]
         IN  IF \E i \in 1..Len(init) : init[i].platform = req.platform
             THEN init
             ELSE Append(init, req)

\* save_game_details, lines 75-77: normalized_requirements[req.platform] = req,
\* a dict keeps a key at its first position and its last value
RECURSIVE normalized_requirements(_)
normalized_requirements(reqs) ==
    IF reqs = <<>> THEN <<>>
    ELSE LET init == normalized_requirements(SubSeq(reqs, 1, Len(reqs) - 1))
             req == reqs[Len(reqs)]
         IN  IF \E i \in 1..Len(init) : init[i].platform = req.platform
             THEN [i \in 1..Len(init) |->
                      IF init[i].platform = req.platform THEN req ELSE init[i]]
             ELSE Append(init, req)

\* save_game_details, lines 102-109: the GameSystemRequirement rows of one game
requirement_rows(game_in, game_id) ==
    LET reqs == normalized_requirements(game_in.system_requirements) IN
    [i \in 1..Len(reqs) |->
        [game_id |-> game_id,
         platform |-> reqs[i].platform,
         minimum |-> reqs[i].minimum,
         recommended |-> reqs[i].recommended]]

\* GameSystemRequirement.__table_args__: UniqueConstraint(game_id, platform)
requirements_unique(rows) ==
    \A i, j \in 1..Len(rows) :
        (rows[i].game_id = rows[j].game_id /\ rows[i].platform = rows[j].platform) => i = j

Faults == {"none", "flush", "commit"}

\* save_game_details: how the call ends.  fault is what the store does to this
\* transaction: nothing, an OperationalError at flush, or one at commit.
save_outcome(app_details, fault) ==
    IF ~engine THEN "no_engine"
    ELSE IF model_validate_fails(app_details) THEN "invalid"
    ELSE LET game_in == model_validate(app_details) IN
         IF fault # "none" THEN "db_error"
         ELSE IF ~games_constraints_ok(game_row(game_in, nextGameId)) THEN "db_error"
         ELSE IF ~requirements_unique(requirements \o requirement_rows(game_in, nextGameId))
         THEN "db_error"
         ELSE "saved"

\* a save whose games row survives a failure at commit
save_effect_partial(app_details, fault, outcome) ==
    /\ games' = IF outcome = "saved" \/ (outcome = "db_error" /\ fault = "commit")
                THEN Append(games, game_row(model_validate(app_details), nextGameId))
                ELSE games
    /\ requirements' =
          IF outcome = "saved"
          THEN requirements \o requirement_rows(model_validate(app_details), nextGameId)
          ELSE requirements
    /\ nextGameId' = IF outcome = "saved" \/ (outcome = "db_error" /\ fault # "flush")
                     THEN nextGameId + 1 ELSE nextGameId

\* save_game_details: what the call does to the store.  The transaction holds
\* the Games row and its requirement rows; a failure rolls all of it back.  The
\* id sequence is advanced by the INSERT at flush and is not rolled back.
save_effect(app_details, fault, outcome) ==
    /\ games' = IF outcome = "saved"
                THEN Append(games, game_row(model_validate(app_details), nextGameId))
                ELSE games
    /\ requirements' =
          IF outcome = "saved"
          THEN requirements \o requirement_rows(model_validate(app_details), nextGameId)
          ELSE requirements
    /\ nextGameId' = IF outcome = "saved" \/ (outcome = "db_error" /\ fault # "flush")
                     THEN nextGameId + 1 ELSE nextGameId

\* save_game_details(app_details)
save_game_details(app_details, fault) ==
    /\ nextGameId <= MaxGameId
    /\ LET outcome == save_outcome(app_details, fault) IN
          /\ save_effect(app_details, fault, outcome)
          /\ last' = [op |-> "save_game_details", arg |-> app_details, fault |-> fault,
                      outcome |-> outcome, ret |-> outcome = "saved"]
    /\ UNCHANGED <<engine, users, library, sync>>

-----------------------------------------------------------------------------
(***************************************************************************)
(* steam_connection.py: the detail fetch and one item of the sync loop.    *)
(***************************************************************************)

\* retrieve_app_details: response is what requests.get(...).json() gave, or
\* [t |-> "exc"] when requests.get or raise_for_status raised a
\* RequestException (no connection, timeout, a status that is not 2xx).  Both
\* except clauses return None: no path of the function raises.
retrieve_app_details(app_id, response) ==
    IF response.t # "dict" THEN PyNone
    ELSE LET app_payload == get(response.v, ToString(app_id), PyNone) IN
         IF app_payload.t # "dict"
               \/ ~truthy(get(app_payload.v, "success", PyBool(FALSE)))
         THEN PyNone
         ELSE LET raw_data == get(app_payload.v, "data", PyNone) IN
              IF raw_data.t # "dict" THEN PyNone
              ELSE IF create_game_info_dict_raises(raw_data.v) THEN PyNone
              ELSE IF ~truthy(create_game_info_dict(raw_data.v).name) THEN PyNone
              ELSE PyDict(create_game_info_dict(raw_data.v))

\* process_and_save_apps: the body of the loop for one app
process_app(app, response, fault) ==
    /\ nextGameId <= MaxGameId
    /\ LET appid == get(app, "appid", PyNone)
           game == retrieve_app_details(appid.v, response)
           outcome == IF ~truthy(appid) THEN "no_appid"
                      ELSE IF ~truthy(game) THEN "no_details"
                      ELSE save_outcome(game.v, fault)
       IN  /\ IF outcome \in {"no_appid", "no_details"}
              THEN UNCHANGED <<games, requirements, nextGameId>>
              ELSE save_effect(game.v, fault, outcome)
           /\ last' = [op |-> "process_app", arg |-> <<app, response>>, fault |-> fault,
                       outcome |-> outcome, ret |-> outcome = "saved",
                       details |-> IF truthy(appid) THEN game ELSE [t |-> "no_call"]]
    /\ UNCHANGED <<engine, users, library, sync>>

-----------------------------------------------------------------------------
(***************************************************************************)
(* Inputs of the ingestion: raw Steam payloads and app_details dicts.      *)
(***************************************************************************)
Genre(description) == PyDict([description |-> description])

RawData(appid, name, genres, final, rating, total) ==
    [steam_appid |-> appid,
     name |-> name,
     genres |-> genres,
     price_overview |-> PyDict([final |-> final]),
     ratings |-> PyDict([usk |-> PyDict([rating |-> rating])]),
     recommendations |-> PyDict([total |-> total])]

RawPayloads ==
    { RawData(PyInt(10), PyStr(s_Doom), PyList(<<Genre(PyStr(s_Action))>>),
              PyInt(1999), PyStr(s_18), PyInt(1000)),
      RawData(PyInt(20), PyStr(s_Hades),
              PyList(<<Genre(PyStr(s_RPG)), Genre(PyStr(s_Indie_padded))>>),
              PyInt(-500), PyStr(s_7), PyInt(-3)),
      RawData(PyInt(30), PyStr(s_blank), PyList(<<>>), PyInt(0), PyStr(s_18), PyInt(5)),
      RawData(PyInt(30), PyStr(<<>>), PyList(<<>>), PyInt(0), PyStr(s_18), PyInt(5)),
      RawData(PyStr(s_abc), PyStr(s_Doom), PyList(<<Genre(PyStr(s_Action))>>),
              PyInt(1999), PyStr(s_18), PyInt(1000)),
      RawData(PyInt(30), PyStr(s_Doom), PyList(<<Genre(PyInt(5))>>),
              PyInt(1999), PyStr(s_18), PyInt(1000)),
      RawData(PyStr(s_42), PyStr(s_Doom_padded), PyNone,
              PyBool(TRUE), PyInt(16), PyStr(s_77)),
      RawData(PyInt(30), PyInt(7), PyList(<<>>), PyNone, PyStr(s_USK_12), PyNone),
      [name |-> PyStr(s_Hades)],
      [appid |-> PyInt(20), name |-> PyStr(s_Hades),
       pc_requirements |-> PyDict([minimum |-> PyStr(s_html_os)]),
       mac_requirements |-> PyDict([minimum |-> PyStr(s_html_empty),
                                    recommended |-> PyNone]),
       ratings |-> PyDict([usk |-> PyDict([rating |-> PyStr(s_USK_12)])])] }

\* the responses of the detail endpoint for app 10
Responses ==
    {[t |-> "exc"], PyList(<<>>), PyDict(ToString(11) :> PyNone),
     PyDict(ToString(10) :> PyDict([success |-> PyBool(FALSE)])),
     PyDict(ToString(10) :> PyDict([success |-> PyBool(TRUE), data |-> PyList(<<>>)]))}
    \cup {PyDict(ToString(10) :> PyDict([success |-> PyBool(TRUE), data |-> PyDict(raw)])) :
             raw \in RawPayloads}

Apps == {[appid |-> PyInt(10)], [appid |-> PyInt(0)], [name |-> PyStr(s_Doom)]}

Requirement(platform, minimum) == PyDict([platform |-> platform, minimum |-> minimum])

AppDetails ==
    { create_game_info_dict(CHOOSE raw \in RawPayloads : raw["name"] = PyStr(s_Doom)
                                                        /\ raw["steam_appid"] = PyInt(10)),
      [name |-> PyStr(s_Hades), usk |-> PyStr(s_16), price |-> PyStr(s_19_99),
       recommendations |-> PyFloat(250)],
      [name |-> PyStr(s_Hades), appid |-> PyInt(20), usk |-> PyInt(7),
       price |-> PyFloat(-100), recommendations |-> PyStr(s_minus_5),
       system_requirements |-> PyList(<<Requirement(PyStr(s_pc), PyStr(s_8GB)),
                                        Requirement(PyStr(s_PC_padded), PyStr(s_16GB))>>)],
      [name |-> PyStr(s_Doom),
       system_requirements |-> PyList(<<Requirement(PyStr(s_xbox), PyStr(s_8GB))>>)],
      [appid |-> PyInt(10), usk |-> PyInt(18)],
      [name |-> PyStr(s_Doom), appid |-> PyNone, usk |-> PyList(<<>>),
       price |-> PyStr(s_abc), recommendations |-> PyStr(s_abc)] }

-----------------------------------------------------------------------------
(***************************************************************************)
(* The ingestion, from an empty store.                                     *)
(***************************************************************************)
\* no run of main
NoSync == [pc |-> "idle"]

NoCall == [op |-> "none", arg |-> PyNone, fault |-> "none", outcome |-> "none",
           ret |-> FALSE]

Init ==
    /\ engine \in BOOLEAN
    /\ users = {1, 2}
    /\ games = <<>>
    /\ requirements = <<>>
    /\ nextGameId = 1
    /\ library = <<>>
    /\ sync = NoSync
    /\ last = NoCall

\* a fault is an event of a transaction that was opened
SaveInputs ==
    {in \in AppDetails \X Faults : in[2] = "none" \/ ~model_validate_fails(in[1])}

ProcessInputs ==
    {in \in Apps \X Responses \X {"none", "commit"} :
        \/ in[3] = "none"
        \/ /\ truthy(get(in[1], "appid", PyNone))
           /\ truthy(retrieve_app_details(in[1]["appid"].v, in[2]))
           /\ ~model_validate_fails(retrieve_app_details(in[1]["appid"].v, in[2]).v)}

SaveGameDetails == \E in \in SaveInputs : save_game_details(in[1], in[2])

ProcessApp == \E in \in ProcessInputs : process_app(in[1], in[2], in[3])

Next == SaveGameDetails \/ ProcessApp

Spec == Init /\ [][Next]_vars

-----------------------------------------------------------------------------
(***************************************************************************)
(* database/data_handling.py: the user library.                            *)
(***************************************************************************)

\* UserGames.__table_args__: the three CheckConstraints
usergames_constraints_ok(row) ==
    /\ row.status \in {"owned", "wishlist", "playing", "completed"}
    /\ row.rating = PyNone \/ (row.rating.v >= 0 /\ row.rating.v <= 10)
    /\ row.playtime_hours >= 0

\* UserGames: the primary key (user_id, game_id)
usergames_pk_unique(rows) ==
    \A i, j \in 1..Len(rows) :
        (rows[i].user_id = rows[j].user_id /\ rows[i].game_id = rows[j].game_id) => i = j

\* session.get(UserGames, (user_id, game_id)) finds a row
has_relation(user_id, game_id) ==
    \E i \in 1..Len(library) :
        library[i].user_id = user_id /\ library[i].game_id = game_id

\* add_game_to_user_library, lines 136-141: the playtime in hundredths
playtime_of(playtime_hours) ==
    IF ~decimal_ok(playtime_hours) THEN 0
    ELSE IF decimal_of(playtime_hours) < 0 THEN 0
    ELSE decimal_of(playtime_hours)

\* Numeric(8, 1): the store keeps tenths, rounding half away from zero
numeric_8_1(hundredths) == (hundredths + 5) \div 10

\* an add that never looks for the existing relation
library_with_append(user_id, game_id, status, rating, playtime) ==
    Append(library, [user_id |-> user_id, game_id |-> game_id, status |-> status,
                     rating |-> rating, playtime_hours |-> numeric_8_1(playtime)])

\* add_game_to_user_library, lines 150-164: the rows after session.add(relation)
library_with(user_id, game_id, status, rating, playtime) ==
    LET relation == [user_id |-> user_id, game_id |-> game_id, status |-> status,
                     rating |-> rating, playtime_hours |-> numeric_8_1(playtime)]
    IN  IF has_relation(user_id, game_id)
        THEN [i \in 1..Len(library) |->
                 IF library[i].user_id = user_id /\ library[i].game_id = game_id
                 THEN relation ELSE library[i]]
        ELSE Append(library, relation)

game_ids == {games[i].id : i \in 1..Len(games)}

\* add_game_to_user_library: how the call ends
add_outcome(user_id, game_id, status, rating, playtime_hours, fault) ==
    LET after == library_with(user_id, game_id, status, rating, playtime_of(playtime_hours))
    IN  IF ~engine THEN "no_engine"
        ELSE IF user_id \notin users \/ game_id \notin game_ids THEN "not_found"
        ELSE IF fault # "none" THEN "db_error"
        ELSE IF \E i \in 1..Len(after) : ~usergames_constraints_ok(after[i]) THEN "db_error"
        ELSE IF ~usergames_pk_unique(after) THEN "db_error"
        ELSE IF has_relation(user_id, game_id) THEN "updated"
        ELSE "added"

\* add_game_to_user_library(user_id, game_id, status=, rating=, playtime_hours=)
add_game_to_user_library(user_id, game_id, status, rating, playtime_hours, fault) ==
    LET outcome == add_outcome(user_id, game_id, status, rating, playtime_hours, fault) IN
    /\ outcome = "added" => Len(library) < MaxLibrary
    /\ library' = IF outcome \in {"added", "updated"}
                  THEN library_with(user_id, game_id, status, rating,
                                    playtime_of(playtime_hours))
                  ELSE library
    /\ last' = [op |-> "add_game_to_user_library",
                arg |-> [user_id |-> user_id, game_id |-> game_id, status |-> status,
                         rating |-> rating, playtime_hours |-> playtime_hours],
                fault |-> fault, outcome |-> outcome,
                ret |-> outcome \in {"added", "updated"}]
    /\ UNCHANGED <<engine, users, games, requirements, nextGameId, sync>>

\* remove_game_from_user_library: how the call ends
remove_outcome(user_id, game_id, fault) ==
    IF ~engine THEN "no_engine"
    ELSE IF ~has_relation(user_id, game_id) THEN "not_found"
    ELSE IF fault # "none" THEN "db_error"
    ELSE "removed"

\* remove_game_from_user_library(user_id, game_id)
remove_game_from_user_library(user_id, game_id, fault) ==
    LET outcome == remove_outcome(user_id, game_id, fault)
        kept(row) == ~(row.user_id = user_id /\ row.game_id = game_id)
    IN  /\ library' = IF outcome = "removed" THEN SelectSeq(library, kept) ELSE library
        /\ last' = [op |-> "remove_game_from_user_library",
                    arg |-> [user_id |-> user_id, game_id |-> game_id],
                    fault |-> fault, outcome |-> outcome, ret |-> outcome = "removed"]
        /\ UNCHANGED <<engine, users, games, requirements, nextGameId, sync>>

\* get_user_library: the user's rows joined with their games
game_by_id(id) == games[CHOOSE i \in 1..Len(games) : games[i].id = id]

get_user_library(user_id) ==
    LET mine(row) == row.user_id = user_id
        rows == SelectSeq(library, mine)
    IN  [i \in 1..Len(rows) |->
            [user_id |-> rows[i].user_id,
             game_id |-> rows[i].game_id,
             appid |-> game_by_id(rows[i].game_id).steam_appid,
             name |-> game_by_id(rows[i].game_id).game_name,
             genres |-> game_by_id(rows[i].game_id).genres,
             recommendations |-> game_by_id(rows[i].game_id).recommendations,
             status |-> rows[i].status,
             rating |-> rows[i].rating,
             playtime_hours |-> rows[i].playtime_hours]]

\* the normalized, non-empty labels of one genres string, in order
normalized_genres(raw_genres) ==
    LET parts == split(raw_genres, ",")
        normalized == [i \in 1..Len(parts) |-> lower(strip(parts[i]))]
    IN  SelectSeq(normalized, nonempty)

\* get_top_library_genres, lines 224-231: the Counter as (genre, count) pairs in
\* the order the genres were first counted
RECURSIVE count_genres(_, _)
count_genres(genre_counts, labels) ==
    IF labels = <<>> THEN genre_counts
    ELSE LET g == Head(labels)
             counted == IF \E i \in 1..Len(genre_counts) : genre_counts[i][1] = g
                        THEN [i \in 1..Len(genre_counts) |->
                                 IF genre_counts[i][1] = g
                                 THEN <<g, genre_counts[i][2] + 1>> ELSE genre_counts[i]]
                        ELSE Append(genre_counts, <<g, 1>>)
         IN  count_genres(counted, Tail(labels))

RECURSIVE library_labels(_)
library_labels(library_rows) ==
    IF library_rows = <<>> THEN <<>>
    ELSE normalized_genres(Head(library_rows).genres) \o library_labels(Tail(library_rows))

\* an insertion that puts an item before the items of equal count
RECURSIVE insert_by_count_strict(_, _)
insert_by_count_strict(sorted, item) ==
    IF sorted = <<>> THEN <<item>>
    ELSE IF Head(sorted)[2] > item[2]
         THEN <<Head(sorted)>> \o insert_by_count_strict(Tail(sorted), item)
    ELSE <<item>> \o sorted

\* sorted(items, key=count, reverse=True): a stable sort, by insertion
RECURSIVE insert_by_count(_, _)
insert_by_count(sorted, item) ==
    IF sorted = <<>> THEN <<item>>
    ELSE IF Head(sorted)[2] >= item[2] THEN <<Head(sorted)>> \o insert_by_count(Tail(sorted), item)
    ELSE <<item>> \o sorted

RECURSIVE sort_by_count(_)
sort_by_count(items) ==
    IF items = <<>> THEN <<>>
    ELSE insert_by_count(sort_by_count(SubSeq(items, 1, Len(items) - 1)), items[Len(items)])

\* Counter.most_common(n)
most_common(genre_counts, n) ==
    LET sorted == sort_by_count(genre_counts) IN
    [i \in 1..(IF n < Len(sorted) THEN n ELSE Len(sorted)) |-> sorted[i][1]]

\* get_top_library_genres(user_id, limit)
get_top_library_genres(user_id, limit) ==
    IF ~engine THEN <<>>
    ELSE most_common(count_genres(<<>>, library_labels(get_user_library(user_id))),
                     IF limit > 0 THEN limit ELSE 0)

-----------------------------------------------------------------------------
(***************************************************************************)
(* recommender.py.                                                         *)
(***************************************************************************)
TopGenresLimit == 5
PopularityCap == 50000
MatchWeight == 100

\* a selection that keeps the entries of status "owned" only
owned_game_ids_owned_only(user_id) ==
    {library[i].game_id : i \in {k \in 1..Len(library) : /\ library[k].user_id = user_id
                                                         /\ library[k].status = "owned"}}

\* select(UserGames.game_id).where(UserGames.user_id == user_id)
owned_game_ids(user_id) ==
    {library[i].game_id : i \in {k \in 1..Len(library) : library[k].user_id = user_id}}

\* lines 46-51: the profile genres that the game carries, in profile order
genre_matches(profile, game) ==
    LET labels == normalized_genres(game.genres)
        game_genres == {labels[i] : i \in 1..Len(labels)}
        carried(genre) == genre \in game_genres
    IN  SelectSeq(profile, carried)

\* a score without the popularity cap
score_of_uncapped(matches, game) ==
    LET popularity == IF game.recommendations > 0 THEN game.recommendations ELSE 0
    IN  Len(matches) * MatchWeight * 1000 + popularity

\* lines 55-56: the score, in thousandths
score_of(matches, game) ==
    LET popularity == IF game.recommendations > 0 THEN game.recommendations ELSE 0
        capped == IF popularity < PopularityCap THEN popularity ELSE PopularityCap
    IN  Len(matches) * MatchWeight * 1000 + capped

\* a loop that keeps the games without a matching genre
RECURSIVE candidates_unfiltered(_, _, _)
candidates_unfiltered(catalog_games, owned, profile) ==
    IF catalog_games = <<>> THEN <<>>
    ELSE LET game == Head(catalog_games)
             matches == genre_matches(profile, game)
             rest == candidates_unfiltered(Tail(catalog_games), owned, profile)
         IN  IF game.id \in owned THEN rest
             ELSE <<[game_id |-> game.id,
                     appid |-> game.steam_appid,
                     name |-> game.game_name,
                     score |-> Len(matches) * MatchWeight * 1000,
                     reason |-> matches]>> \o rest

\* lines 41-65: the candidates, in catalog order.  game_id is not a field of
\* Recommendation: it records which Games row the entry was built from.
RECURSIVE candidates(_, _, _)
candidates(catalog_games, owned, profile) ==
    IF catalog_games = <<>> THEN <<>>
    ELSE LET game == Head(catalog_games)
             matches == genre_matches(profile, game)
             rest == candidates(Tail(catalog_games), owned, profile)
         IN  IF game.id \in owned THEN rest
             ELSE IF matches = <<>> THEN rest
             ELSE <<[game_id |-> game.id,
                     appid |-> game.steam_appid,
                     name |-> game.game_name,
                     score |-> score_of(matches, game),
                     reason |-> SubSeq(matches, 1, IF Len(matches) < 2 THEN Len(matches) ELSE 2)]>>
                  \o rest

\* an insertion that puts an entry before the entries of equal score
RECURSIVE insert_by_score_strict(_, _)
insert_by_score_strict(sorted, rec) ==
    IF sorted = <<>> THEN <<rec>>
    ELSE IF Head(sorted).score > rec.score
         THEN <<Head(sorted)>> \o insert_by_score_strict(Tail(sorted), rec)
    ELSE <<rec>> \o sorted

\* recommendations.sort(key=score, reverse=True): a stable sort, by insertion
RECURSIVE insert_by_score(_, _)
insert_by_score(sorted, rec) ==
    IF sorted = <<>> THEN <<rec>>
    ELSE IF Head(sorted).score >= rec.score
         THEN <<Head(sorted)>> \o insert_by_score(Tail(sorted), rec)
    ELSE <<rec>> \o sorted

RECURSIVE sort_by_score(_)
sort_by_score(recommendations) ==
    IF recommendations = <<>> THEN <<>>
    ELSE insert_by_score(sort_by_score(SubSeq(recommendations, 1, Len(recommendations) - 1)),
                         recommendations[Len(recommendations)])

\* no truncation
truncate_none(recommendations, limit) == recommendations

\* recommendations[:limit] for limit > 0
truncate(recommendations, limit) ==
    SubSeq(recommendations, 1, IF limit < Len(recommendations) THEN limit
                               ELSE Len(recommendations))

\* get_recommendations_for_user(user_id, limit)
get_recommendations_for_user(user_id, limit) ==
    LET short == ~engine \/ limit <= 0
        profile == IF short THEN <<>> ELSE get_top_library_genres(user_id, TopGenresLimit)
        reads == ~short /\ profile # <<>>
    IN  /\ last' = [op |-> "get_recommendations_for_user",
                    arg |-> [user_id |-> user_id, limit |-> limit],
                    fault |-> "none",
                    outcome |-> IF short THEN "short_circuit"
                                ELSE IF ~reads THEN "empty_profile" ELSE "ranked",
                    top_genres |-> profile,
                    catalog_read |-> reads,
                    ret |-> IF reads
                            THEN truncate(sort_by_score(
                                     candidates(games, owned_game_ids(user_id), profile)),
                                     limit)
                            ELSE <<>>]
        /\ UNCHANGED <<engine, users, games, requirements, nextGameId, library, sync>>

-----------------------------------------------------------------------------
(***************************************************************************)
(* Stores that the ingestion can have produced, as start states of the     *)
(* library and of the recommender.                                         *)
(***************************************************************************)
s_RPG_RPG_Action == <<"R","P","G",","," ","R","P","G",","," ","A","c","t","i","o","n">>
s_RPG_Strategy == <<"R","P","G",","," ","S","t","r","a","t","e","g","y">>
s_Action_RPG == <<"A","c","t","i","o","n",","," ","R","P","G">>
s_rpg_padded == <<" ","r","p","g"," ">>
s_Strategy_RPG == <<"S","t","r","a","t","e","g","y",",","R","P","G">>
s_five_genres == <<"S","i","m",","," ","R","a","c","i","n","g",","," ","S","p","o","r","t","s",","," ","P","u","z","z","l","e",","," ",",","I","n","d","i","e">>
s_no_genres == <<" ",","," ">>
s_Game_L == <<"L">>
s_Game_A == <<"A">>
s_Game_B == <<"B">>
s_Game_H == <<"H">>
s_Game_T == <<"T">>
s_Game_W == <<"W">>
s_Game_Z == <<"Z">>

CatalogRow(id, appid, name, genres, popularity) ==
    [id |-> id, steam_appid |-> appid, game_name |-> name, genres |-> genres,
     usk |-> 0, price |-> 0, recommendations |-> popularity]

\* L carries the library genres of the worked example; A and B are its catalog
ScenarioCatalog ==
    <<CatalogRow(1, PyInt(100), s_Game_L, s_RPG_RPG_Action, 5),
      CatalogRow(2, PyInt(200), s_Game_A, s_RPG_Strategy, 1000),
      CatalogRow(3, PyInt(300), s_Game_B, s_Action_RPG, 200)>>

\* H and T have the same capped popularity; B has little popularity
RankingCatalog ==
    <<CatalogRow(1, PyInt(200), s_Game_A, s_RPG_Strategy, 1000),
      CatalogRow(2, PyInt(400), s_Game_H, s_rpg_padded, 60000),
      CatalogRow(3, PyNone, s_Game_T, s_Strategy_RPG, 50000),
      CatalogRow(4, PyInt(300), s_Game_B, s_Action_RPG, 200)>>

\* W carries five genres and an empty label; Z carries no genre
GenresCatalog ==
    <<CatalogRow(1, PyInt(500), s_Game_W, s_five_genres, 0),
      CatalogRow(2, PyInt(100), s_Game_L, s_RPG_RPG_Action, 5),
      CatalogRow(4, PyInt(600), s_Game_Z, s_no_genres, 10),
      CatalogRow(5, PyInt(200), s_Game_A, s_RPG_Strategy, 70000)>>

Catalogs == {ScenarioCatalog, RankingCatalog, GenresCatalog}

StoreWith(catalog) ==
    /\ engine \in BOOLEAN
    /\ users = {1, 2}
    /\ games = catalog
    /\ requirements = <<>>
    /\ nextGameId = catalog[Len(catalog)].id + 1
    /\ library = <<>>
    /\ sync = NoSync
    /\ last = NoCall

-----------------------------------------------------------------------------
(***************************************************************************)
(* The library operations, over a store with two games.                    *)
(***************************************************************************)
LibraryArgs ==
    { <<"completed", PyInt(9), PyFloat(1225)>>,
      <<"wishlist", PyInt(0), PyFloat(-300)>>,
      <<"abandoned", PyNone, PyInt(2)>>,
      <<"playing", PyInt(11), PyStr(s_abc)>> }

InitLibrary == StoreWith(SubSeq(ScenarioCatalog, 1, 2))

\* the store fails the transactions of user 1 only
LibraryFaults(user_id) == IF user_id = 1 THEN {"none", "commit"} ELSE {"none"}

AddGame == \E user_id \in 1..3, game_id \in 1..3, a \in LibraryArgs :
               \E fault \in LibraryFaults(user_id) :
                   add_game_to_user_library(user_id, game_id, a[1], a[2], a[3], fault)

RemoveGame == \E user_id \in 1..3, game_id \in 1..3 :
                  \E fault \in LibraryFaults(user_id) :
                      remove_game_from_user_library(user_id, game_id, fault)

NextLibrary == AddGame \/ RemoveGame

SpecLibrary == InitLibrary /\ [][NextLibrary]_vars

-----------------------------------------------------------------------------
(***************************************************************************)
(* The recommender, over the catalogs above and a growing library.         *)
(***************************************************************************)
Limits == {-5, 0, 1, 2, 10}

InitRecommend == \E catalog \in Catalogs : StoreWith(catalog)

\* user 1 owns any game and can have games 1 and 2 on the wishlist; user 2 is
\* playing games 2 and 3
OwnGame == \E in \in (({1} \X (1..5)) \X {"owned"})
                         \cup (({1} \X {1, 2}) \X {"wishlist"})
                         \cup (({2} \X {2, 3}) \X {"playing"}) :
               add_game_to_user_library(in[1][1], in[1][2], in[2], PyNone, PyFloat(0), "none")

DropGame == \E user_id \in 1..2, game_id \in 1..5 :
                remove_game_from_user_library(user_id, game_id, "none")

Recommend == \E in \in (({1} \X Limits) \cup {<<2, 10>>, <<3, 10>>}) :
                 get_recommendations_for_user(in[1], in[2])

NextRecommend == OwnGame \/ DropGame \/ Recommend

SpecRecommend == InitRecommend /\ [][NextRecommend]_vars

-----------------------------------------------------------------------------
(***************************************************************************)
(* steam_connection.py: main, that is retrieve_app_list followed by        *)
(* process_and_save_apps, one request of the while loop and one item of    *)
(* the for loop at a time.                                                  *)
(*                                                                         *)
(* sync.pc          "list" in retrieve_app_list, "process" in              *)
(*                  process_and_save_apps, "done" when main returned,      *)
(*                  "aborted" when an exception left main's call           *)
(* sync.last_appid  params_app_list["last_appid"]                          *)
(* sync.app_list    app_list, then apps                                    *)
(* sync.requested   the last_appid of every request sent so far            *)
(* sync.pages       what every request gave                                *)
(* sync.outcomes    how the iteration of every finished item ended         *)
(* sync.calls       the requests and sleeps of the run, in order           *)
(***************************************************************************)
MaxPages == 3

\* time.sleep(2.5), in tenths
SleepTenths == 25

s_0 == <<"0">>
s_app == <<"a", "p", "p">>

\* the str of the dict keys that a run iterates over
KeyChars == [app |-> s_app]

Call(kind) == [kind |-> kind, duration |-> 0]
Sleep == [kind |-> "sleep", duration |-> SleepTenths]

\* app_list.extend(apps) raises TypeError unless apps is iterable
iterable(value) == value.t \in {"list", "dict", "str"}

\* app_list.extend(apps): a list gives its items, a str its characters, a dict
\* its keys (dicts of one key here, so that the order is fixed)
items_of(value) ==
    CASE value.t = "list" -> value.v
      [] value.t = "str" -> [i \in 1..Len(value.v) |-> PyStr(<<value.v[i]>>)]
      [] value.t = "dict" -> <<PyStr(KeyChars[CHOOSE k \in DOMAIN value.v : TRUE])>>

\* retrieve_app_list, lines 162-179: one pass of the loop body.  items is what
\* the pass appends to app_list, more is FALSE when the pass ends in a break.
\* A response that is no dict breaks at line 166 or raises TypeError there; a
\* "response" that is no dict does the same at line 166 or 169.
page_pass(response) ==
    LET break(items) == [items |-> items, more |-> FALSE, last_appid |-> PyNone] IN
    IF response.t # "dict" THEN break(<<>>)
    ELSE LET r == get(response.v, "response", [t |-> "missing"]) IN
         IF r.t # "dict" THEN break(<<>>)
         ELSE LET apps == get(r.v, "apps", [t |-> "missing"]) IN
              IF apps.t = "missing" THEN break(<<>>)
              ELSE IF ~iterable(apps) THEN break(<<>>)
              ELSE IF "have_more_results" \notin DOMAIN r.v THEN break(items_of(apps))
              ELSE [items |-> items_of(apps), more |-> TRUE,
                    last_appid |-> get(r.v, "last_appid", PyStr(s_0))]

\* retrieve_app_list: one request; after a break, main's test of len(apps)
retrieve_app_list(response) ==
    /\ sync.pc = "list"
    /\ Len(sync.requested) < MaxPages
    /\ LET page == page_pass(response)
           app_list == sync.app_list \o page.items
       IN  sync' = [sync EXCEPT !.requested = Append(@, sync.last_appid),
                                !.pages = Append(@, response),
                                !.calls = Append(@, Call("page")),
                                !.app_list = app_list,
                                !.last_appid = IF page.more THEN page.last_appid ELSE @,
                                !.pc = IF page.more THEN "list"
                                       ELSE IF app_list = <<>> THEN "done"
                                       ELSE "process"]
    /\ UNCHANGED <<engine, users, games, requirements, nextGameId, library, last>>

\* process_and_save_apps, lines 220-233: how the iteration of a dict item ends
item_outcome(app, response, fault) ==
    LET appid == get(app, "appid", PyNone) IN
    IF ~truthy(appid) THEN "no_appid"
    ELSE IF ~truthy(retrieve_app_details(appid.v, response)) THEN "no_details"
    ELSE save_outcome(retrieve_app_details(appid.v, response).v, fault)

\* an iteration that goes on to the next item when no details came
item_calls_continue(outcome) ==
    IF outcome = "no_appid" THEN <<>>
    ELSE IF outcome = "no_details" THEN <<Call("detail")>>
    ELSE <<Call("detail"), Sleep>>

\* process_and_save_apps: the request and the sleep of one iteration; the
\* continue of line 223 skips both
item_calls(outcome) ==
    IF outcome = "no_appid" THEN <<>> ELSE <<Call("detail"), Sleep>>

\* process_and_save_apps: the iteration of the next item.  app.get of an item
\* that is no dict raises AttributeError, which nothing below main catches.
process_and_save_apps(response, fault) ==
    /\ sync.pc = "process"
    /\ LET app == sync.app_list[Len(sync.outcomes) + 1] IN
       IF app.t # "dict"
       THEN /\ sync' = [sync EXCEPT !.pc = "aborted"]
            /\ UNCHANGED <<games, requirements, nextGameId>>
       ELSE LET outcome == item_outcome(app.v, response, fault) IN
            /\ IF outcome \in {"no_appid", "no_details"}
               THEN UNCHANGED <<games, requirements, nextGameId>>
               ELSE save_effect(retrieve_app_details(app.v["appid"].v, response).v,
                                fault, outcome)
            /\ sync' = [sync EXCEPT
                           !.outcomes = Append(@, [item |-> app, outcome |-> outcome]),
                           !.calls = @ \o item_calls(outcome),
                           !.pc = IF Len(sync.outcomes) + 1 = Len(sync.app_list)
                                  THEN "done" ELSE "process"]
    /\ UNCHANGED <<engine, users, library, last>>

-----------------------------------------------------------------------------
(***************************************************************************)
(* Runs of main against an empty store.                                    *)
(***************************************************************************)
AppItem(appid) == PyDict([appid |-> PyInt(appid)])

ListPage(fields) == PyDict([response |-> PyDict(fields)])

\* what a request of the list endpoint gives: the raised request, a JSON
\* array, objects without "response" or "apps", apps that is a number or an
\* object, a page of two items with a continuation and the next cursor, a page
\* with a continuation and no cursor, two last pages
PageResponses ==
    { [t |-> "exc"],
      PyList(<<>>),
      PyDict([success |-> PyBool(FALSE)]),
      ListPage([have_more_results |-> PyBool(TRUE)]),
      ListPage([apps |-> PyInt(5)]),
      ListPage([apps |-> PyDict([app |-> PyList(<<AppItem(10)>>)])]),
      ListPage([apps |-> PyList(<<AppItem(10), PyDict([name |-> PyStr(s_Doom)])>>),
                have_more_results |-> PyBool(TRUE), last_appid |-> PyInt(10)]),
      ListPage([apps |-> PyList(<<AppItem(20)>>), have_more_results |-> PyBool(TRUE)]),
      ListPage([apps |-> PyList(<<AppItem(20)>>)]),
      ListPage([apps |-> PyList(<<PyInt(7), AppItem(10)>>)]) }

\* what the request of the detail endpoint for an id gives
DetailResponses(appid) ==
    { [t |-> "exc"],
      PyDict(ToString(appid) :> PyDict([success |-> PyBool(FALSE)])),
      PyDict(ToString(appid) :>
                 PyDict([success |-> PyBool(TRUE),
                         data |-> PyDict(RawData(PyInt(appid), PyStr(s_Doom),
                                                 PyList(<<Genre(PyStr(s_Action))>>),
                                                 PyInt(1999), PyStr(s_18), PyInt(1000)))])),
      PyDict(ToString(appid) :>
                 PyDict([success |-> PyBool(TRUE),
                         data |-> PyDict(RawData(PyStr(s_abc), PyStr(s_Doom),
                                                 PyList(<<Genre(PyStr(s_Action))>>),
                                                 PyInt(1999), PyStr(s_18), PyInt(1000)))])) }

StartSync == [pc |-> "list", last_appid |-> PyStr(s_0), app_list |-> <<>>,
              requested |-> <<>>, pages |-> <<>>, outcomes |-> <<>>, calls |-> <<>>]

InitSync ==
    /\ engine \in BOOLEAN
    /\ users = {1, 2}
    /\ games = <<>>
    /\ requirements = <<>>
    /\ nextGameId = 1
    /\ library = <<>>
    /\ sync = StartSync
    /\ last = NoCall

\* the requests that the iteration of an item can meet: none for an item
\* without a usable appid, a store fault only where a transaction is opened
ItemInputs(app) ==
    IF app.t # "dict" \/ ~truthy(get(app.v, "appid", PyNone))
    THEN {<<[t |-> "exc"], "none">>}
    ELSE {in \in DetailResponses(app.v["appid"].v) \X {"none", "commit"} :
             \/ in[2] = "none"
             \/ /\ truthy(retrieve_app_details(app.v["appid"].v, in[1]))
                /\ ~model_validate_fails(retrieve_app_details(app.v["appid"].v, in[1]).v)}

RetrieveAppList == \E response \in PageResponses : retrieve_app_list(response)

ProcessAndSaveApps ==
    /\ sync.pc = "process"
    /\ \E in \in ItemInputs(sync.app_list[Len(sync.outcomes) + 1]) :
          process_and_save_apps(in[1], in[2])

NextSync == RetrieveAppList \/ ProcessAndSaveApps

SpecSync == InitSync /\ [][NextSync]_vars

-----------------------------------------------------------------------------
(***************************************************************************)
(* Properties of the ingestion (specification Spec).                       *)
(***************************************************************************)

\* the raw payload that the last process_app call handed to create_game_info_dict
LastHasRaw ==
    /\ last.op = "process_app"
    /\ truthy(get(last.arg[1], "appid", PyNone))
    /\ last.arg[2].t = "dict"
    /\ LET app_payload == get(last.arg[2].v, ToString(last.arg[1]["appid"].v), PyNone) IN
          /\ app_payload.t = "dict"
          /\ truthy(get(app_payload.v, "success", PyBool(FALSE)))
          /\ get(app_payload.v, "data", PyNone).t = "dict"

LastRaw == last.arg[2].v[ToString(last.arg[1]["appid"].v)].v["data"].v

LastRow == games[Len(games)]

\* C1: game persistence is an idempotent upsert keyed by steam_appid: after
\* any sequence of save_game_details calls the catalog holds at most one Games
\* row per non-null steam_appid (so that saving a payload a second time leaves
\* the catalog as the first save left it).
C1_UpsertByAppid ==
    \A i, j \in 1..Len(games) :
        (games[i].steam_appid # PyNone /\ games[i].steam_appid = games[j].steam_appid)
            => i = j

\* the raw payload has no name that is non-empty after trimming
TrimmedNameEmpty(raw_data) ==
    LET name == get(raw_data, "name", PyStr(<<>>)) IN
    name.t # "str" \/ strip(name.v) = <<>>

\* C9: building and validating a record from a raw payload
\* (create_game_info_dict, then GameIn validation) fails if and only if the
\* trimmed name is empty, whatever the other fields hold.
C9_FailsIffNameEmpty ==
    (engine /\ LastHasRaw) =>
        (last.outcome \in {"no_details", "invalid"} <=> TrimmedNameEmpty(LastRaw))

\* the value is an int-like rating of the closed set
ValidRating(value) == int_ok(value) /\ int_of(value) \in {0, 6, 12, 16, 18}
\* the value is a non-negative number / a non-negative count
ValidPrice(value) == decimal_ok(value) /\ decimal_of(value) >= 0
ValidCount(value) == int_ok(value) /\ int_of(value) >= 0

\* what a raw payload carries as rating, price (minor units) and popularity
RawRating(raw_data) ==
    LET ratings == get(raw_data, "ratings", PyNone)
        usk_data == IF ratings.t = "dict" THEN get(ratings.v, "usk", PyNone) ELSE PyNone
    IN  IF usk_data.t = "dict" THEN get(usk_data.v, "rating", PyNone) ELSE PyNone
RawFinal(raw_data) ==
    LET price_overview == get(raw_data, "price_overview", PyNone) IN
    IF price_overview.t = "dict" THEN get(price_overview.v, "final", PyNone) ELSE PyNone
RawTotal(raw_data) ==
    LET recommendations == get(raw_data, "recommendations", PyNone) IN
    IF recommendations.t = "dict" THEN get(recommendations.v, "total", PyInt(0)) ELSE PyInt(0)

\* a rating "16" or "USK 16" names 16; anything that names no member names none
RawRatingValid(raw_data) ==
    /\ RawRating(raw_data).t \in {"str", "int"}
    /\ digits_of(str_of(RawRating(raw_data))) # <<>>
    /\ digits_value(digits_of(str_of(RawRating(raw_data)))) \in {0, 6, 12, 16, 18}

\* C10: every persisted game has usk in {0, 6, 12, 16, 18}, price >= 0 and
\* recommendations >= 0; a call that passes validation and meets no store
\* fault is persisted, and an unknown or invalid rating, a negative or invalid
\* price and a negative or invalid popularity are each stored as 0.
C10_ClampedFields ==
    /\ \A i \in 1..Len(games) :
          /\ games[i].usk \in {0, 6, 12, 16, 18}
          /\ games[i].price >= 0
          /\ games[i].recommendations >= 0
    /\ last.outcome = "db_error" => last.fault # "none"
    /\ (last.op = "save_game_details" /\ last.outcome = "saved") =>
          /\ ~ValidRating(get(last.arg, "usk", PyInt(0))) => LastRow.usk = 0
          /\ ~ValidPrice(get(last.arg, "price", PyInt(0))) => LastRow.price = 0
          /\ ~ValidCount(get(last.arg, "recommendations", PyInt(0))) =>
                LastRow.recommendations = 0
    /\ (last.op = "process_app" /\ last.outcome = "saved") =>
          /\ ~RawRatingValid(LastRaw) => LastRow.usk = 0
          /\ ~(RawFinal(LastRaw).t \in {"int", "bool"} /\ int_of(RawFinal(LastRaw)) >= 0) =>
                LastRow.price = 0
          /\ ~ValidCount(RawTotal(LastRaw)) => LastRow.recommendations = 0

\* C10 witness: a payload whose rating (7), price (-1.00) and popularity
\* ("-5") are all invalid was saved; so was a raw payload with rating "7",
\* final -500 and total -3.
C10_Witness ==
    /\ last.op = "save_game_details"
    /\ last.outcome = "saved"
    /\ get(last.arg, "usk", PyNone) = PyInt(7)
    /\ get(last.arg, "price", PyNone) = PyFloat(-100)
    /\ LastRow.usk = 0 /\ LastRow.price = 0 /\ LastRow.recommendations = 0
    /\ \E i \in 1..Len(games) : games[i].genres # <<>> /\ games[i].steam_appid = PyInt(20)

\* the last process_app call made a detail call
LastHasDetailCall == last.op = "process_app" /\ last.details.t # "no_call"

\* the entry of the response for the requested id
LastAppPayload ==
    IF last.arg[2].t = "dict"
    THEN get(last.arg[2].v, ToString(last.arg[1]["appid"].v), PyNone)
    ELSE PyNone

\* the request failed at transport level
TransportFailure == last.arg[2].t = "exc"

\* the response is there, and the id is missing from it, or its entry is
\* marked unsuccessful, or its data is not an object
MissingOrInvalid ==
    /\ ~TransportFailure
    /\ \/ LastAppPayload.t # "dict"
       \/ ~truthy(get(LastAppPayload.v, "success", PyBool(FALSE)))
       \/ get(LastAppPayload.v, "data", PyNone).t # "dict"

\* C12: retrieve_app_details returns None when the item is marked
\* unsuccessful, when its id is missing from the response or when the payload
\* shape is invalid; it raises exactly on a transport-level failure, which
\* reaches the caller as an error instead of None.
C12_RaisesOnlyOnTransport ==
    LastHasDetailCall =>
        /\ MissingOrInvalid => last.details = PyNone
        /\ TransportFailure <=> last.details.t = "raise"

\* the requirement entries of the payload of the last save_game_details call
LastRequirements == get(last.arg, "system_requirements", PyList(<<>>)).v

\* the platform that an entry names
PlatformOf(req) == lower(strip(str_of(get(req.v, "platform", PyNone))))

\* the stored requirement rows of a game for a platform
StoredFor(game_id, platform) ==
    {i \in 1..Len(requirements) : /\ requirements[i].game_id = game_id
                                  /\ requirements[i].platform = platform}

\* C11: every persisted game has at most one requirement row per platform;
\* when the payload of save_game_details names a platform several times the
\* save still succeeds, one row is stored for that platform and it holds the
\* values of the last entry that names it.
C11_OneRequirementPerPlatform ==
    /\ \A i, j \in 1..Len(requirements) :
          (requirements[i].game_id = requirements[j].game_id
              /\ requirements[i].platform = requirements[j].platform) => i = j
    /\ \A i \in 1..Len(requirements) :
          \E g \in 1..Len(games) : games[g].id = requirements[i].game_id
    /\ (last.op = "save_game_details" /\ last.outcome = "db_error") => last.fault # "none"
    /\ (last.op = "save_game_details" /\ last.outcome = "saved") =>
          \A k \in 1..Len(LastRequirements) :
              LET platform == PlatformOf(LastRequirements[k])
                  same == {n \in 1..Len(LastRequirements) :
                              PlatformOf(LastRequirements[n]) = platform}
                  final == LastRequirements[CHOOSE n \in same : \A o \in same : o <= n]
                  stored == StoredFor(LastRow.id, platform)
              IN  /\ Cardinality(stored) = 1
                  /\ \A i \in stored :
                        /\ requirements[i].minimum
                              = strip(get(final.v, "minimum", PyStr(<<>>)).v)
                        /\ requirements[i].recommended
                              = (LET r == get(final.v, "recommended", PyNone) IN
                                 IF r.t = "null" THEN PyNone ELSE PyStr(strip(r.v)))

\* C11 witness: a payload with the entries "pc" (8 GB) and " PC " (16 GB) was
\* saved, and the one row of pc holds 16 GB.
C11_Witness ==
    /\ last.op = "save_game_details"
    /\ last.outcome = "saved"
    /\ Len(LastRequirements) = 2
    /\ PlatformOf(LastRequirements[1]) = PlatformOf(LastRequirements[2])
    /\ LastRequirements[1] # LastRequirements[2]
    /\ \E i \in StoredFor(LastRow.id, s_pc) : requirements[i].minimum = s_16GB

\* what a step of save_game_details, alone or within process_app, must do
C16_Step ==
    (last'.op \in {"save_game_details", "process_app"}) =>
        IF last'.ret
        THEN /\ Len(games') = Len(games) + 1
             /\ SubSeq(games', 1, Len(games)) = games
             /\ SubSeq(requirements', 1, Len(requirements)) = requirements
             /\ \A i \in (Len(requirements) + 1)..Len(requirements') :
                   requirements'[i].game_id = games'[Len(games')].id
             /\ last'.op = "save_game_details" =>
                   LET reqs == get(last'.arg, "system_requirements", PyList(<<>>)).v IN
                   \A k \in 1..Len(reqs) :
                       \E i \in (Len(requirements) + 1)..Len(requirements') :
                           requirements'[i].platform = PlatformOf(reqs[k])
        ELSE games' = games /\ requirements' = requirements

\* C16: save_game_details is atomic per game: a call that returns True has
\* stored the game row and a row for every platform of its requirement
\* entries; a call that returns False, a failure while the requirement rows
\* are written included, leaves the games and the requirement rows as they
\* were.
C16_AtomicSave == [][C16_Step]_vars

\* C16 witness: the store failed after the games row was flushed (its id is
\* used up) while the requirement rows of the payload were written; the call
\* returned False and neither table holds a row.
C16_Witness ==
    /\ last.op = "save_game_details"
    /\ last.fault = "commit"
    /\ ~last.ret
    /\ Len(LastRequirements) = 2
    /\ nextGameId = 2
    /\ games = <<>>
    /\ requirements = <<>>

-----------------------------------------------------------------------------
(***************************************************************************)
(* Properties of the library (specification SpecLibrary).                  *)
(***************************************************************************)

\* the playtime that an argument stands for, in tenths
ExpectedPlaytime(value) ==
    IF decimal_ok(value) /\ decimal_of(value) > 0 THEN (decimal_of(value) + 5) \div 10 ELSE 0

ValidLibraryArgs(arg) ==
    /\ arg.status \in {"owned", "wishlist", "playing", "completed"}
    /\ arg.rating = PyNone \/ arg.rating.v \in 0..10

\* what a step of add_game_to_user_library for an existing pair must do
C2_Step ==
    /\ \A i, j \in 1..Len(library') :
          (library'[i].user_id = library'[j].user_id
              /\ library'[i].game_id = library'[j].game_id) => i = j
    /\ (/\ last'.op = "add_game_to_user_library"
        /\ \E i \in 1..Len(library) : /\ library[i].user_id = last'.arg.user_id
                                      /\ library[i].game_id = last'.arg.game_id) =>
          /\ Len(library') = Len(library)
          /\ (engine /\ last'.fault = "none" /\ ValidLibraryArgs(last'.arg)) => last'.ret
          /\ last'.ret =>
                \A i \in 1..Len(library) :
                    IF /\ library[i].user_id = last'.arg.user_id
                       /\ library[i].game_id = last'.arg.game_id
                    THEN library'[i] = [user_id |-> last'.arg.user_id,
                                        game_id |-> last'.arg.game_id,
                                        status |-> last'.arg.status,
                                        rating |-> last'.arg.rating,
                                        playtime_hours |->
                                            ExpectedPlaytime(last'.arg.playtime_hours)]
                    ELSE library'[i] = library[i]
          /\ ~last'.ret => library' = library

\* C2: the library holds at most one entry per (user, game); a repeated add
\* for an existing pair (with a valid status and rating, on a working store)
\* succeeds, overwrites that entry's status, rating and playtime in place and
\* leaves the number of entries and every other entry unchanged.
C2_OneEntryPerPair == [][C2_Step]_vars

\* C2 witness: a repeated add has updated one of two entries.
C2_Witness ==
    /\ last.op = "add_game_to_user_library"
    /\ last.outcome = "updated"
    /\ Len(library) = 2
    /\ \E i \in 1..Len(library) :
          /\ library[i].user_id = last.arg.user_id
          /\ library[i].game_id = last.arg.game_id
          /\ library[i].status = "completed"
          /\ library[i].rating = PyInt(9)
          /\ library[i].playtime_hours = 123

-----------------------------------------------------------------------------
(***************************************************************************)
(* Properties of the recommender (specification SpecRecommend).            *)
(***************************************************************************)
LastIsRecommend == last.op = "get_recommendations_for_user"

\* the library entries of the user of the last call
UserEntries(user_id) == {i \in 1..Len(library) : library[i].user_id = user_id}

\* the set of normalized labels of a genres string
LabelSet(genres_text) ==
    LET parts == split(genres_text, ",") IN
    {lower(strip(parts[i])) : i \in 1..Len(parts)} \ {<<>>}

ProfileSet == {last.top_genres[i] : i \in 1..Len(last.top_genres)}

\* the profile genres that a game matches
Matched(game) == LabelSet(game.genres) \cap ProfileSet

CappedPopularity(game) ==
    IF game.recommendations > 50000 THEN 50000 ELSE game.recommendations

CatalogPosition(id) == CHOOSE i \in 1..Len(games) : games[i].id = id

\* the games that are not in the user's library and match the profile
Eligible(user_id) ==
    {i \in 1..Len(games) :
        /\ \A k \in UserEntries(user_id) : library[k].game_id # games[i].id
        /\ Matched(games[i]) # {}}

\* C3: no game that has a library entry of the user, whatever its status,
\* appears in the list returned for that user.
C3_NoOwnedGame ==
    LastIsRecommend =>
        \A i \in 1..Len(last.ret) :
            \A k \in UserEntries(last.arg.user_id) :
                library[k].game_id # last.ret[i].game_id

\* C3 witness: a wishlist game of the user matches the profile, and the call
\* returned other games.
C3_Witness ==
    /\ LastIsRecommend
    /\ last.ret # <<>>
    /\ \E k \in UserEntries(last.arg.user_id) :
          /\ library[k].status = "wishlist"
          /\ Matched(game_by_id(library[k].game_id)) # {}

\* C4: the list has at most limit entries when limit > 0; when limit <= 0 it
\* is empty and the catalog was not read.
C4_AtMostLimit ==
    LastIsRecommend =>
        /\ last.arg.limit > 0 => Len(last.ret) <= last.arg.limit
        /\ last.arg.limit <= 0 => (last.ret = <<>> /\ ~last.catalog_read)

\* C4 witness: two games were eligible and limit 1 returned one.
C4_Witness ==
    /\ LastIsRecommend
    /\ last.arg.limit = 1
    /\ Len(last.ret) = 1
    /\ Cardinality(Eligible(last.arg.user_id)) >= 2

\* the store and the call of the worked example
InScenario ==
    /\ games = ScenarioCatalog
    /\ library # <<>>
    /\ \A k \in 1..Len(library) : library[k].user_id = 1 => library[k].game_id = 1
    /\ \E k \in 1..Len(library) : library[k].user_id = 1
    /\ LastIsRecommend
    /\ last.arg = [user_id |-> 1, limit |-> 10]
    /\ engine

\* C5: every returned entry has score (in thousandths)
\* 100000 x (profile genres matched) + min(popularity, 50000); in the worked
\* example the profile is [rpg, action], B scores 200.2, A scores 101.0 and
\* the list is [B, A].
C5_Score ==
    /\ LastIsRecommend =>
          \A i \in 1..Len(last.ret) :
              LET game == game_by_id(last.ret[i].game_id) IN
              last.ret[i].score = 100000 * Cardinality(Matched(game)) + CappedPopularity(game)
    /\ InScenario =>
          /\ last.top_genres = <<lower(s_RPG), lower(s_Action)>>
          /\ Len(last.ret) = 2
          /\ last.ret[1].name = s_Game_B /\ last.ret[1].score = 200200
          /\ last.ret[2].name = s_Game_A /\ last.ret[2].score = 101000

\* C5 witness: the worked example was run.
C5_Witness == InScenario /\ Len(last.ret) = 2

\* C6: in the list, a game with more matched genres precedes a game with
\* fewer whatever their popularity; with the same number of matches the higher
\* capped popularity comes first; with the same score the order is that of the
\* catalog.
C6_Order ==
    LastIsRecommend =>
        \A i, j \in 1..Len(last.ret) :
            i < j =>
                LET a == game_by_id(last.ret[i].game_id)
                    b == game_by_id(last.ret[j].game_id)
                    ma == Cardinality(Matched(a))
                    mb == Cardinality(Matched(b))
                IN  \/ ma > mb
                    \/ ma = mb /\ CappedPopularity(a) > CappedPopularity(b)
                    \/ /\ ma = mb
                       /\ CappedPopularity(a) = CappedPopularity(b)
                       /\ CatalogPosition(a.id) < CatalogPosition(b.id)

\* C6 witness: the list holds two games of equal score, and a game that
\* follows them with fewer points.
C6_Witness ==
    /\ LastIsRecommend
    /\ Len(last.ret) >= 3
    /\ last.ret[1].score = last.ret[2].score
    /\ game_by_id(last.ret[1].game_id).recommendations
          # game_by_id(last.ret[2].game_id).recommendations
    /\ last.ret[2].score > last.ret[3].score

\* the normalized labels of the user's library entries, in library order
RECURSIVE EntryLabels(_, _)
EntryLabels(user_id, k) ==
    IF k > Len(library) THEN <<>>
    ELSE IF library[k].user_id # user_id THEN EntryLabels(user_id, k + 1)
    ELSE LET parts == split(game_by_id(library[k].game_id).genres, ",")
             labels == [i \in 1..Len(parts) |-> lower(strip(parts[i]))]
             filled(label) == label # <<>>
         IN  SelectSeq(labels, filled) \o EntryLabels(user_id, k + 1)

Frequency(labels, label) == Cardinality({i \in 1..Len(labels) : labels[i] = label})
FirstSeen(labels, label) ==
    CHOOSE i \in 1..Len(labels) : labels[i] = label /\ \A j \in 1..(i - 1) : labels[j] # label
Outranks(labels, a, b) ==
    \/ Frequency(labels, a) > Frequency(labels, b)
    \/ /\ Frequency(labels, a) = Frequency(labels, b)
       /\ FirstSeen(labels, a) < FirstSeen(labels, b)

\* C7: the genre profile is the 5 most frequent normalized non-empty labels
\* over all library entries of the user, whatever their status, rating or
\* playtime, by descending frequency, equal frequencies by first occurrence.
C7_TopGenres ==
    (LastIsRecommend /\ last.outcome # "short_circuit") =>
        LET labels == EntryLabels(last.arg.user_id, 1)
            all == {labels[i] : i \in 1..Len(labels)}
            top == last.top_genres
        IN  /\ Len(top) = (IF Cardinality(all) < 5 THEN Cardinality(all) ELSE 5)
            /\ \A i \in 1..Len(top) : top[i] \in all
            /\ \A i, j \in 1..Len(top) : i < j => Outranks(labels, top[i], top[j])
            /\ \A l \in all \ ProfileSet : \A i \in 1..Len(top) : Outranks(labels, top[i], l)

\* C7 witness: the user's entries carry more than five labels, a wishlist
\* entry among them, and two labels of the profile are equally frequent.
C7_Witness ==
    /\ LastIsRecommend
    /\ Len(last.top_genres) = 5
    /\ LET labels == EntryLabels(last.arg.user_id, 1) IN
          /\ Cardinality({labels[i] : i \in 1..Len(labels)}) > 5
          /\ Frequency(labels, last.top_genres[1]) > Frequency(labels, last.top_genres[2])
          /\ Frequency(labels, last.top_genres[4]) = Frequency(labels, last.top_genres[5])
    /\ \E k \in UserEntries(last.arg.user_id) : library[k].status = "wishlist"

\* C8: every game of the list shares a normalized genre with the profile; a
\* user with an empty profile (no entries, or no parseable genre) gets the
\* empty list.
C8_GenreOverlap ==
    LastIsRecommend =>
        /\ \A i \in 1..Len(last.ret) : Matched(game_by_id(last.ret[i].game_id)) # {}
        /\ last.top_genres = <<>> => last.ret = <<>>
        /\ (engine /\ last.arg.limit > 0 /\ EntryLabels(last.arg.user_id, 1) = <<>>) =>
              (last.top_genres = <<>> /\ last.ret = <<>> /\ last.outcome = "empty_profile")

\* C8 witness: a game outside the user's library shares no genre with the
\* profile, and the call returned other games.
C8_Witness ==
    /\ LastIsRecommend
    /\ last.ret # <<>>
    /\ \E i \in 1..Len(games) :
          /\ \A k \in UserEntries(last.arg.user_id) : library[k].game_id # games[i].id
          /\ LabelSet(games[i].genres) # {}
          /\ Matched(games[i]) = {}

-----------------------------------------------------------------------------
(***************************************************************************)
(* Properties of a run of main (specification SpecSync).                   *)
(***************************************************************************)
Skipped == {"no_appid", "no_details", "invalid"}
Failed == {"db_error", "no_engine"}
Saved == {"saved"}

\* the number of finished items whose outcome is of a class
Counted(class) ==
    Cardinality({i \in 1..Len(sync.outcomes) : sync.outcomes[i].outcome \in class})

\* C13: a sync over n items processes every item in catalog order and never
\* aborts because of one item: each item ends in exactly one outcome, skipped
\* (no identifier, no details, validation failure), failed (persistence
\* error) or saved, so that saved + skipped + failed = n at the end.
C13_EveryItemCounted ==
    /\ sync.pc # "aborted"
    /\ \A i \in 1..Len(sync.outcomes) :
          /\ sync.outcomes[i].item = sync.app_list[i]
          /\ sync.outcomes[i].outcome \in Skipped \cup Failed \cup Saved
    /\ sync.pc = "done" =>
          Counted(Saved) + Counted(Skipped) + Counted(Failed) = Len(sync.app_list)

DetailCalls == {i \in 1..Len(sync.calls) : sync.calls[i].kind = "detail"}

\* C14: between two successive detail calls there is exactly one sleep, of
\* 2.5, also when the earlier item was skipped or failed; a sleep follows a
\* detail call only, and the page calls of a run are not separated by
\* anything.
C14_DelayBetweenDetailCalls ==
    /\ \A i, j \in DetailCalls :
          (i < j /\ \A k \in (i + 1)..(j - 1) : k \notin DetailCalls) =>
              /\ j = i + 2
              /\ sync.calls[i + 1] = [kind |-> "sleep", duration |-> 25]
    /\ \A i \in 1..Len(sync.calls) :
          sync.calls[i].kind = "sleep" =>
              /\ sync.calls[i].duration = 25
              /\ i > 1 /\ sync.calls[i - 1].kind = "detail"
    /\ \A i, j \in 1..Len(sync.calls) :
          (i < j /\ sync.calls[i].kind = "page" /\ sync.calls[j].kind = "page") =>
              \A k \in i..j : sync.calls[k].kind = "page"

\* C14 witness: after two page calls, an item without details, an item
\* without identifier and a third item were processed, with two detail calls.
C14_Witness ==
    /\ Len(sync.requested) >= 2
    /\ Len(sync.outcomes) >= 3
    /\ sync.outcomes[1].outcome = "no_details"
    /\ sync.outcomes[2].outcome = "no_appid"
    /\ sync.outcomes[3].outcome \in {"saved", "db_error", "invalid", "no_details"}
    /\ Cardinality(DetailCalls) = 2

\* the response is a page: an object whose "response" holds a list "apps"
GoodPage(response) ==
    /\ response.t = "dict"
    /\ get(response.v, "response", PyNone).t = "dict"
    /\ get(response.v["response"].v, "apps", PyNone).t = "list"

\* the items of the first k pages
RECURSIVE ItemsOfPages(_)
ItemsOfPages(k) ==
    IF k = 0 THEN <<>>
    ELSE ItemsOfPages(k - 1) \o sync.pages[k].v["response"].v["apps"].v

\* C15: when a page request fails (raised request, unparsable or unexpectedly
\* shaped response) after k good pages, retrieve_app_list stops paginating and
\* returns exactly the items of those k pages, in order; a failure on the
\* first page gives the empty list.
C15_PartialResult ==
    \A f \in 1..Len(sync.pages) :
        (~GoodPage(sync.pages[f]) /\ \A i \in 1..(f - 1) : GoodPage(sync.pages[i])) =>
            /\ Len(sync.pages) = f
            /\ sync.pc # "list"
            /\ sync.app_list = ItemsOfPages(f - 1)

\* the page carries a continuation token
HasToken(response) ==
    GoodPage(response) /\ "have_more_results" \in DOMAIN response.v["response"].v

\* C17: pagination terminates: the first request uses the cursor "0", no
\* request follows a page without continuation token, and after a page with a
\* token the next request uses a cursor that no earlier request used, so that
\* no cursor is requested twice.
C17_PaginationTerminates ==
    /\ sync.requested # <<>> => sync.requested[1] = PyStr(s_0)
    /\ \A i \in 1..Len(sync.pages) :
          (GoodPage(sync.pages[i]) /\ ~HasToken(sync.pages[i])) => Len(sync.pages) = i
    /\ sync.pc = "list" =>
          \A i \in 1..Len(sync.requested) : sync.requested[i] # sync.last_appid
    /\ \A i, j \in 1..Len(sync.requested) :
          sync.requested[i] = sync.requested[j] => i = j

====
